---- MODULE Spec2Model ----
(***************************************************************************)
(* A model of CANBus (esp32_can_library.h): the 11-bit identifier codec,   *)
(* the CRC-8 checksum, fragmentation in send, reassembly in handleReceive  *)
(* and the acknowledgment / retry handshake.                               *)
(*                                                                         *)
(* The clock `now` is std::chrono::steady_clock read in whole              *)
(* milliseconds since its origin (boot).  A frame is a record              *)
(* [identifier, data]; data_length_code is Len(data).                      *)
(***************************************************************************)
EXTENDS Integers, Sequences, FiniteSets, TLC

(***************************************************************************)
(* Program constants                                                       *)
(***************************************************************************)
START == 0
MIDDLE == 1
END == 2
SINGLE == 3
REASSEMBLY_TIMEOUT == 500
ACK_TYPE_ID == 7
ACK_WAIT_MS == 100
ACK_PRIO == 3
DEFAULT_RETRY_LIMIT == 3
MAX_FRAME_DATA == 8

(***************************************************************************)
(* Bounds of the model                                                     *)
(***************************************************************************)
\* the clock stops advancing here
MaxClock == 1002
\* handleReceive calls per behaviour
MaxRx == 3
\* acknowledgment frames received per behaviour of SpecSend
MaxAcks == 2
\* send calls per behaviour
MaxSends == 1
\* the clock stops advancing here in SpecRetry: 260 acknowledgment waits
MaxWaitClock == 26000

(***************************************************************************)
(* Unsigned integer arithmetic                                             *)
(***************************************************************************)
RECURSIVE BitAnd(_, _)
BitAnd(a, b) ==
    IF a = 0 \/ b = 0 THEN 0
    ELSE (IF a % 2 = 1 /\ b % 2 = 1 THEN 1 ELSE 0) + 2 * BitAnd(a \div 2, b \div 2)

RECURSIVE BitOr(_, _)
BitOr(a, b) ==
    IF a = 0 THEN b
    ELSE IF b = 0 THEN a
    ELSE (IF a % 2 = 1 \/ b % 2 = 1 THEN 1 ELSE 0) + 2 * BitOr(a \div 2, b \div 2)

RECURSIVE BitXor(_, _)
BitXor(a, b) ==
    IF a = 0 THEN b
    ELSE IF b = 0 THEN a
    ELSE (((a % 2) + (b % 2)) % 2) + 2 * BitXor(a \div 2, b \div 2)

Shl(a, n) == a * (2 ^ n)
Shr(a, n) == a \div (2 ^ n)
U8(x) == x % 256
\* a & ~static_cast<uint32_t>(mask), for unsigned a
AndNot(a, mask) == a - BitAnd(a, mask)

Min(a, b) == IF a < b THEN a ELSE b

(***************************************************************************)
(* crc8: polynomial 0x31, initial value 0, MSB first                       *)
(***************************************************************************)
\* one pass of the inner loop: crc = (crc & 0x80) ? (crc << 1) ^ 0x31 : (crc << 1)
CrcShift(crc) ==
    IF BitAnd(crc, 128) # 0 THEN U8(BitXor(Shl(crc, 1), 49)) ELSE U8(Shl(crc, 1))

RECURSIVE CrcBits(_, _)
CrcBits(crc, j) == IF j >= 8 THEN crc ELSE CrcBits(CrcShift(crc), j + 1)

\* the eight shifts, for each value of the running byte
CrcShifted == [c \in 0..255 |-> CrcBits(c, 0)]

\* a ^ b, for each pair of bytes
Xor8 == [a \in 0..255 |-> [b \in 0..255 |-> BitXor(a, b)]]

\* crc ^= data[i], then the eight shifts
CrcByte(crc, byte) == CrcShifted[Xor8[crc][byte]]

\* the outer loop over data[lo..hi], entered with the running value crc.
\* The range is halved and the running value is evaluated on entry (it is a
\* byte), so that long buffers are folded at small depth.
RECURSIVE CrcRange(_, _, _, _)
CrcRange(crc, data, lo, hi) ==
    IF crc \notin 0..255 \/ lo > hi THEN crc
    ELSE IF lo = hi THEN CrcByte(crc, data[lo])
    ELSE CrcRange(CrcRange(crc, data, lo, (lo + hi) \div 2), data, ((lo + hi) \div 2) + 1, hi)

\* variant: the loop starts at the second byte
crc8SkipFirst(data) == CrcRange(0, data, 2, Len(data))

crc8(data) == CrcRange(0, data, 1, Len(data))

(***************************************************************************)
(* Identifier codec                                                        *)
(***************************************************************************)
\* variant: the address is masked with 0x07
buildIdNarrow(prio, addr, seq, type) ==
    BitOr(BitOr(Shl(BitAnd(prio, 3), 9), Shl(BitAnd(addr, 7), 5)),
          BitOr(Shl(BitAnd(seq, 3), 3), BitAnd(type, 7)))

buildId(prio, addr, seq, type) ==
    BitOr(BitOr(Shl(BitAnd(prio, 3), 9), Shl(BitAnd(addr, 15), 5)),
          BitOr(Shl(BitAnd(seq, 3), 3), BitAnd(type, 7)))

\* the fields handleReceive reads from an identifier
IdSeq(id) == BitAnd(Shr(id, 3), 3)
IdType(id) == BitAnd(id, 7)
IdFrom(id) == BitAnd(Shr(id, 5), 15)
\* the priority field (not read by the library; the layout of the header comment)
IdPrio(id) == BitAnd(Shr(id, 9), 3)
\* variant: the address bits are cleared too (mask 0x1F8)
BaseIdNoAddr(id) == AndNot(id, 504)

\* the routing key: the identifier with the sequence bits cleared
BaseId(id) == AndNot(id, 24)

Frame(id, bytes) == [identifier |-> id, data |-> bytes]

(***************************************************************************)
(* Message types.  An application type T declared by                       *)
(* DEFINE_CAN_MESSAGE(Name, ID, ...) is the record [ID, size], size being  *)
(* sizeof(T).                                                              *)
(***************************************************************************)
MsgType(id, size) == [ID |-> id, size |-> size]

\* MsgTraits<T, 0>::TypeID, as send and onReceive evaluate it.  The macro
\* specialises MsgTraits<Name, ID>; MsgTraits<T, 0> is that specialisation
\* only when ID is 0, and the primary template (TypeID = TYPE_ID = 0) otherwise.
MsgTraitsTypeID(T) == IF T.ID = 0 THEN T.ID ELSE 0

(***************************************************************************)
(* State                                                                   *)
(***************************************************************************)
VARIABLES
    now,          \* steady_clock::now(), in milliseconds
    retryLimit_,  \* uint8_t
    errorCb_,     \* TRUE when an error callback is registered
    pendingAck_,  \* uint8_t
    fragMap_,     \* routing key -> FragEntry
    handlers_,    \* type-id -> the message type whose callback is stored
    snd,          \* the send call in progress, or the last one finished; its
                  \* history: waits, the waitAck calls it made, and slot0,
                  \* pendingAck_ when it was called
    sent,         \* frames the current send call handed to twai_transmit
    errs,         \* error callback invocations of the current send call
    nSends,       \* send calls started
    rx,           \* the last handleReceive call: frame, acks sent, handlers run
    startAt,      \* history: routing key -> time of the Start that made its entry
    ackSeen,      \* history: an acknowledgment for the current send was processed
    tally,        \* history: acks[b], the acknowledgment frames processed with
                  \* payload byte b, and ok[t], the send calls for message types
                  \* declared with type-id t that returned ESP_OK from waitAck
    wire          \* round-trip harness: where the sender's frames go

vars == <<now, retryLimit_, errorCb_, pendingAck_, fragMap_, handlers_,
          snd, sent, errs, nSends, rx, startAt, ackSeen, tally, wire>>

endpointVars == <<retryLimit_, errorCb_, pendingAck_, fragMap_, handlers_>>
sendVars == <<snd, sent, errs, nSends, ackSeen>>
rxVars == <<rx, startAt>>

\* FragEntry{}: no data, timestamp = the clock's origin
DefaultEntry == [data |-> <<>>, timestamp |-> 0]

EmptyMap == [k \in {} |-> DefaultEntry]

NoFrame == Frame(0, <<>>)
IdleSend == [pc |-> "idle", T |-> MsgType(0, 0), prio |-> 0, addr |-> 0, type |-> 0,
             payload |-> <<>>, buf |-> <<>>, fragmented |-> FALSE,
             attempts |-> 0, offset |-> 0, start |-> 0, ret |-> "none",
             waits |-> 0, slot0 |-> 0]

NoTally == [acks |-> [b \in 0..255 |-> 0], ok |-> [t \in 0..ACK_TYPE_ID |-> 0]]

InitEndpoint ==
    /\ now = 0
    /\ retryLimit_ = DEFAULT_RETRY_LIMIT
    /\ errorCb_ = FALSE
    /\ pendingAck_ = 0
    /\ fragMap_ = EmptyMap
    /\ handlers_ = <<>>
    /\ snd = IdleSend
    /\ sent = <<>>
    /\ errs = <<>>
    /\ nSends = 0
    /\ rx = [n |-> 0, frame |-> NoFrame, acks |-> <<>>, calls |-> <<>>,
             had |-> FALSE, started |-> FALSE, old |-> DefaultEntry]
    /\ startAt = EmptyMap
    /\ ackSeen = FALSE
    /\ tally = NoTally

(***************************************************************************)
(* Receive path                                                            *)
(***************************************************************************)
\* fragMap_[baseId]: inserts a default entry when the key is absent
MapIndex(map, baseId) ==
    IF baseId \in DOMAIN map THEN map ELSE map @@ (baseId :> DefaultEntry)

MapErase(map, baseId) == [k \in DOMAIN map \ {baseId} |-> map[k]]

\* append(entry, msg)
append(entry, m) == [entry EXCEPT !.data = entry.data \o m.data]

\* variant: the window closes one millisecond early
expiredEarly(t0, t) == (t - t0) >= REASSEMBLY_TIMEOUT

expired(t0, t) == (t - t0) > REASSEMBLY_TIMEOUT

\* variant: the stored lambda also returns when data is exactly sizeof(T) long
dispatchStrict(type, data) ==
    IF type \in DOMAIN handlers_
    THEN LET T == handlers_[type]
         IN IF Len(data) <= T.size THEN <<>>
            ELSE <<[T |-> T, msg |-> SubSeq(data, 1, T.size)]>>
    ELSE <<>>

\* dispatch(type, data): the handler invocations it makes.  The stored
\* lambda returns without calling cb when data is shorter than sizeof(T);
\* otherwise cb gets the first sizeof(T) bytes.
dispatch(type, data) ==
    IF type \in DOMAIN handlers_
    THEN LET T == handlers_[type]
         IN IF Len(data) < T.size THEN <<>>
            ELSE <<[T |-> T, msg |-> SubSeq(data, 1, T.size)]>>
    ELSE <<>>

\* the frame sendAck(to, type) transmits
sendAck(to, type) == Frame(buildId(ACK_PRIO, to, SINGLE, ACK_TYPE_ID), <<type>>)

\* the value handleReceive stores for an acknowledgment frame
AckValue(m) == IF Len(m.data) > 0 THEN m.data[1] ELSE 0

\* the branches of handleReceive on a data frame m with routing key baseId,
\* map being fragMap_ after `FragEntry& entry = fragMap_[baseId]`.  Each gives
\* the table it leaves, the acknowledgment frames it transmits and the
\* handler invocations it makes.
Outcome(map, acks, calls) == [map |-> map, acks |-> acks, calls |-> calls]

\* variant: entry.data is not cleared
OnStartKeep(map, baseId, m) ==
    Outcome([map EXCEPT ![baseId] = append([map[baseId] EXCEPT !.timestamp = now], m)],
            <<>>, <<>>)

OnStart(map, baseId, m) ==
    Outcome([map EXCEPT ![baseId] = append([data |-> <<>>, timestamp |-> now], m)],
            <<>>, <<>>)

OnMiddle(map, baseId, m) ==
    IF expired(map[baseId].timestamp, now)
    THEN Outcome(MapErase(map, baseId), <<>>, <<>>)
    ELSE Outcome([map EXCEPT ![baseId] = append(map[baseId], m)], <<>>, <<>>)

\* variant: the entry is erased on the success path only
OnEndKeep(map, baseId, m, type, from) ==
    IF expired(map[baseId].timestamp, now)
    THEN Outcome(MapErase(map, baseId), <<>>, <<>>)
    ELSE LET entry == append(map[baseId], m)
             body == SubSeq(entry.data, 1, Len(entry.data) - 1)
         IN IF Len(entry.data) >= 1 /\ entry.data[Len(entry.data)] = crc8(body)
            THEN Outcome(MapErase(map, baseId),
                         <<sendAck(from, type)>>, dispatch(type, body))
            ELSE Outcome([map EXCEPT ![baseId] = entry], <<>>, <<>>)

OnEnd(map, baseId, m, type, from) ==
    IF expired(map[baseId].timestamp, now)
    THEN Outcome(MapErase(map, baseId), <<>>, <<>>)
    ELSE LET entry == append(map[baseId], m)
         IN IF Len(entry.data) < 1
            THEN Outcome(MapErase(map, baseId), <<>>, <<>>)
            ELSE LET recvCrc == entry.data[Len(entry.data)]
                     body == SubSeq(entry.data, 1, Len(entry.data) - 1)
                 IN IF recvCrc = crc8(body)
                    THEN Outcome(MapErase(map, baseId),
                                 <<sendAck(from, type)>>, dispatch(type, body))
                    ELSE Outcome(MapErase(map, baseId), <<>>, <<>>)

OnSingle(map, m, type) == Outcome(map, <<>>, dispatch(type, m.data))

\* history: the keys whose entry a Start made, with the time of that Start
Started(seq, baseId) ==
    IF seq = START
    THEN [k \in DOMAIN startAt \cup {baseId} |-> IF k = baseId THEN now ELSE startAt[k]]
    ELSE [k \in DOMAIN startAt \cap DOMAIN fragMap_' |-> startAt[k]]

\* history: the call just made, and the entry of the frame's key before it
RxRecord(m, acks, calls) ==
    LET baseId == BaseId(m.identifier)
    IN [n |-> rx.n + 1, frame |-> m, acks |-> acks, calls |-> calls,
        had |-> baseId \in DOMAIN fragMap_,
        started |-> baseId \in DOMAIN startAt,
        old |-> IF baseId \in DOMAIN fragMap_ THEN fragMap_[baseId] ELSE DefaultEntry]

\* handleReceive() when twai_receive returns frame m
HandleReceive(m) ==
    LET id == m.identifier
        seq == IdSeq(id)
        type == IdType(id)
        from == IdFrom(id)
        baseId == BaseId(id)
        map1 == MapIndex(fragMap_, baseId)
        r == IF seq = START THEN OnStart(map1, baseId, m)
             ELSE IF seq = MIDDLE THEN OnMiddle(map1, baseId, m)
             ELSE IF seq = END THEN OnEnd(map1, baseId, m, type, from)
             ELSE OnSingle(map1, m, type)
    IN IF type = ACK_TYPE_ID
       THEN /\ pendingAck_' = AckValue(m)
            /\ rx' = RxRecord(m, <<>>, <<>>)
            /\ tally' = IF Len(m.data) > 0
                        THEN [tally EXCEPT !.acks[m.data[1]] = @ + 1]
                        ELSE tally
            /\ UNCHANGED <<fragMap_, startAt>>
       ELSE /\ fragMap_' = r.map
            /\ rx' = RxRecord(m, r.acks, r.calls)
            /\ startAt' = Started(seq, baseId)
            /\ UNCHANGED <<pendingAck_, tally>>

\* handleReceive, with the history of acknowledgments kept for the send in progress
Receive(m) ==
    /\ HandleReceive(m)
    /\ ackSeen' = (ackSeen \/ (/\ snd.pc # "idle"
                               /\ Len(sent) >= 1
                               /\ IdType(m.identifier) = ACK_TYPE_ID
                               /\ Len(m.data) > 0
                               /\ m.data[1] = snd.type))
    /\ UNCHANGED <<now, retryLimit_, errorCb_, handlers_, snd, sent, errs, nSends, wire>>

(***************************************************************************)
(* Configuration                                                           *)
(***************************************************************************)
setRetryLimit(n) ==
    /\ retryLimit_' = n
    /\ UNCHANGED <<now, errorCb_, pendingAck_, fragMap_, handlers_,
                   snd, sent, errs, nSends, rx, startAt, ackSeen, tally, wire>>

onError ==
    /\ errorCb_' = TRUE
    /\ UNCHANGED <<now, retryLimit_, pendingAck_, fragMap_, handlers_,
                   snd, sent, errs, nSends, rx, startAt, ackSeen, tally, wire>>

\* onReceive<T>(cb): handlers_[type] = the lambda around cb
onReceive(T) ==
    /\ handlers_' = [k \in DOMAIN handlers_ \cup {MsgTraitsTypeID(T)} |->
                        IF k = MsgTraitsTypeID(T) THEN T ELSE handlers_[k]]
    /\ UNCHANGED <<now, retryLimit_, errorCb_, pendingAck_, fragMap_,
                   snd, sent, errs, nSends, rx, startAt, ackSeen, tally, wire>>

(***************************************************************************)
(* Send path                                                               *)
(***************************************************************************)
\* variant: at most seven bytes per frame
ChunkShort(buf, offset) == Min(MAX_FRAME_DATA - 1, Len(buf) - offset)

\* size_t chunk = std::min<size_t>(8, buf.size() - offset)
Chunk(buf, offset) == Min(MAX_FRAME_DATA, Len(buf) - offset)

\* variant: the last fragment is not recognised: > for >=
SeqTagNoEnd(buf, fragmented, offset) ==
    IF ~fragmented THEN SINGLE
    ELSE IF offset = 0 THEN START
    ELSE IF offset + Chunk(buf, offset) > Len(buf) THEN END
    ELSE MIDDLE

\* the sequence tag of the fragment at offset
SeqTag(buf, fragmented, offset) ==
    IF ~fragmented THEN SINGLE
    ELSE IF offset = 0 THEN START
    ELSE IF offset + Chunk(buf, offset) >= Len(buf) THEN END
    ELSE MIDDLE

\* the twai_message_t one pass of the inner loop builds
Fragment(s, offset) ==
    Frame(buildId(s.prio, s.addr, SeqTag(s.buf, s.fragmented, offset), s.type),
          SubSeq(s.buf, offset + 1, offset + Chunk(s.buf, offset)))

\* buf: the bytes of msg, and their crc8 when the message is fragmented
SendBuf(payload) ==
    IF Len(payload) > MAX_FRAME_DATA THEN Append(payload, crc8(payload)) ELSE payload

\* send<T>(prio, addr, msg) up to the first pass of the inner loop
SendBegin(T, prio, addr, payload) ==
    /\ snd.pc = "idle"
    /\ nSends < MaxSends
    /\ Len(payload) = T.size
    /\ snd' = [pc |-> "frames", T |-> T, prio |-> prio, addr |-> addr,
               type |-> MsgTraitsTypeID(T), payload |-> payload,
               buf |-> SendBuf(payload), fragmented |-> (Len(payload) > MAX_FRAME_DATA),
               attempts |-> 0, offset |-> 0, start |-> 0, ret |-> "none",
               waits |-> 0, slot0 |-> pendingAck_]
    /\ sent' = <<>>
    /\ errs' = <<>>
    /\ ackSeen' = FALSE
    /\ nSends' = nSends + 1
    /\ UNCHANGED <<now, retryLimit_, errorCb_, pendingAck_, fragMap_, handlers_,
                   rx, startAt, tally, wire>>

\* variant: single-frame messages wait for an acknowledgment too
AfterFramesWait(s) ==
    IF retryLimit_ = 0
    THEN [s EXCEPT !.pc = "idle", !.ret = "ESP_OK"]
    ELSE [s EXCEPT !.pc = "waitAck", !.start = now, !.waits = @ + 1]

\* after the inner loop: return ESP_OK, or enter waitAck
AfterFrames(s) ==
    IF retryLimit_ = 0 \/ ~s.fragmented
    THEN [s EXCEPT !.pc = "idle", !.ret = "ESP_OK"]
    ELSE [s EXCEPT !.pc = "waitAck", !.start = now, !.waits = @ + 1]

\* one pass of the inner loop whose twai_transmit returns ESP_OK
SendFrame ==
    /\ snd.pc = "frames"
    /\ snd.offset < Len(snd.buf)
    /\ sent' = Append(sent, Fragment(snd, snd.offset))
    /\ LET s == [snd EXCEPT !.offset = snd.offset + Chunk(snd.buf, snd.offset)]
       IN snd' = IF s.offset < Len(s.buf) THEN s ELSE AfterFrames(s)
    /\ UNCHANGED <<now, retryLimit_, errorCb_, pendingAck_, fragMap_, handlers_,
                   errs, nSends, rx, startAt, ackSeen, tally, wire>>

\* variant: the error callback is called before the error is returned
SendFrameFailReport ==
    /\ snd.pc = "frames"
    /\ snd.offset < Len(snd.buf)
    /\ snd' = [snd EXCEPT !.pc = "idle", !.ret = "ESP_ERR"]
    /\ errs' = IF errorCb_ THEN Append(errs, <<snd.type, snd.addr>>) ELSE errs
    /\ UNCHANGED <<now, retryLimit_, errorCb_, pendingAck_, fragMap_, handlers_,
                   sent, nSends, rx, startAt, ackSeen, tally, wire>>

\* one pass of the inner loop whose twai_transmit returns an error e
SendFrameFail ==
    /\ snd.pc = "frames"
    /\ snd.offset < Len(snd.buf)
    /\ snd' = [snd EXCEPT !.pc = "idle", !.ret = "ESP_ERR"]
    /\ UNCHANGED <<now, retryLimit_, errorCb_, pendingAck_, fragMap_, handlers_,
                   sent, errs, nSends, rx, startAt, ackSeen, tally, wire>>

\* the test of waitAck's loop
WaitAckOpen(s) == (now - s.start) < ACK_WAIT_MS

\* the comparison waitAck makes
AckMatches(s) == pendingAck_ = s.type

\* one pass of waitAck's loop that finds pendingAck_ == type
WaitAckPoll ==
    /\ snd.pc = "waitAck"
    /\ WaitAckOpen(snd)
    /\ AckMatches(snd)
    /\ snd' = [snd EXCEPT !.pc = "ackReset"]
    /\ UNCHANGED <<now, retryLimit_, errorCb_, pendingAck_, fragMap_, handlers_,
                   sent, errs, nSends, rx, startAt, ackSeen, tally, wire>>

\* pendingAck_ = 0; return true; send returns ESP_OK
WaitAckReset ==
    /\ snd.pc = "ackReset"
    /\ pendingAck_' = 0
    /\ snd' = [snd EXCEPT !.pc = "idle", !.ret = "ESP_OK"]
    /\ tally' = [tally EXCEPT !.ok[snd.T.ID] = @ + 1]
    /\ UNCHANGED <<now, retryLimit_, errorCb_, fragMap_, handlers_,
                   sent, errs, nSends, rx, startAt, ackSeen, wire>>

\* if (++attempts > retryLimit_) break;
RetryExhausted(attempts) == attempts > retryLimit_

\* waitAck returns false: retry, or the error callback and ESP_FAIL
WaitAckTimeout ==
    /\ snd.pc = "waitAck"
    /\ ~WaitAckOpen(snd)
    /\ LET a == U8(snd.attempts + 1)
       IN IF RetryExhausted(a)
          THEN /\ snd' = [snd EXCEPT !.pc = "idle", !.ret = "ESP_FAIL", !.attempts = a]
               /\ errs' = IF errorCb_ THEN Append(errs, <<snd.type, snd.addr>>) ELSE errs
          ELSE /\ snd' = [snd EXCEPT !.pc = "frames", !.offset = 0, !.attempts = a]
               /\ UNCHANGED errs
    /\ UNCHANGED <<now, retryLimit_, errorCb_, pendingAck_, fragMap_, handlers_,
                   sent, nSends, rx, startAt, ackSeen, tally, wire>>

(***************************************************************************)
(* Time                                                                    *)
(***************************************************************************)
\* the clock advances by d, up to max
TickUpTo(d, max) ==
    /\ now + d <= max
    /\ now' = now + d
    /\ UNCHANGED <<retryLimit_, errorCb_, pendingAck_, fragMap_, handlers_,
                   snd, sent, errs, nSends, rx, startAt, ackSeen, tally, wire>>

Tick(d) == TickUpTo(d, MaxClock)

(***************************************************************************)
(* The environment: frames on the bus, the application's message types and *)
(* calls, clock steps.                                                     *)
(***************************************************************************)
\* clock steps around the reassembly timeout, and the acknowledgment wait
TickSteps == {REASSEMBLY_TIMEOUT, REASSEMBLY_TIMEOUT + 1}
SendTickSteps == {ACK_WAIT_MS}
RetryLimits == {0, 2}
\* frames on the bus.  Payload bytes are 0, 1 and the checksum of <<1>>, so
\* that complete messages with a right and with a wrong checksum occur; two
\* type-ids give two routing keys.
RxAddr == 2
Crc1 == crc8(<<1>>)
RxFrame(q, t, d) == Frame(buildId(0, RxAddr, q, t), d)
AckFrame(d) == Frame(buildId(ACK_PRIO, RxAddr, SINGLE, ACK_TYPE_ID), d)
AckFrames == {AckFrame(<<>>), AckFrame(<<0>>), AckFrame(<<1>>)}
DataFrames ==
    {RxFrame(START, 0, <<>>), RxFrame(START, 0, <<1>>),
     RxFrame(MIDDLE, 0, <<1>>),
     RxFrame(END, 0, <<>>), RxFrame(END, 0, <<0>>), RxFrame(END, 0, <<Crc1>>),
     RxFrame(SINGLE, 0, <<>>), RxFrame(SINGLE, 0, <<1>>), RxFrame(SINGLE, 0, <<1, 0>>),
     RxFrame(START, 1, <<1>>), RxFrame(MIDDLE, 1, <<1>>), RxFrame(END, 1, <<Crc1>>)}
RxFrames == DataFrames \cup {AckFrame(<<1>>)}

\* the value of a message: byte i is seed + i
Payload(size, seed) == [i \in 1..size |-> U8(seed + i)]

\* message types the application declares
ByteMsg == MsgType(1, 1)
StatusMsg == MsgType(1, 2)
BigMsg == MsgType(2, 9)
AppTypes == {StatusMsg, BigMsg}

\* the round trip: n frames of `sent` have reached the receiving endpoint,
\* which ran the handlers `calls` and transmitted the frames `acks`; t0 is
\* when the last Start arrived, late whether a later fragment came more than
\* the reassembly timeout after it, hit whether a byte was changed on the way;
\* node is the node address of the sending endpoint
NoWire == [n |-> 0, calls |-> <<>>, acks |-> <<>>, t0 |-> 0, late |-> FALSE,
           hit |-> FALSE, node |-> 0]

\* a send call has returned
Returned == snd.pc = "idle" /\ snd.ret # "none"

\* configuration happens before traffic
Setup == rx.n = 0 /\ nSends = 0 /\ now = 0

Init == InitEndpoint /\ wire = NoWire

(***************************************************************************)
(* Spec: one endpoint with everything its environment can do.              *)
(***************************************************************************)
Next ==
    \/ \E n \in RetryLimits : Setup /\ setRetryLimit(n)
    \/ Setup /\ onError
    \/ \E T \in AppTypes \cup {ByteMsg} : Setup /\ onReceive(T)
    \/ \E m \in RxFrames : rx.n < MaxRx /\ Receive(m)
    \/ \E T \in AppTypes : SendBegin(T, 1, 2, Payload(T.size, 0))
    \/ SendFrame
    \/ SendFrameFail
    \/ WaitAckPoll
    \/ WaitAckReset
    \/ WaitAckTimeout
    \/ \E d \in TickSteps \cup SendTickSteps : Tick(d)

Spec == Init /\ [][Next]_vars

(***************************************************************************)
(* SpecRx: the receive path of Spec.  No send call is made.                *)
(***************************************************************************)
NextRx ==
    \/ Setup /\ onReceive(ByteMsg)
    \/ \E m \in RxFrames : rx.n < MaxRx /\ Receive(m)
    \/ \E d \in TickSteps : Tick(d)

SpecRx == Init /\ [][NextRx]_vars

(***************************************************************************)
(* SpecSend: the send path of Spec.  The frames received are acknowledgment*)
(* frames.                                                                 *)
(***************************************************************************)
NextSend ==
    \/ \E n \in RetryLimits : Setup /\ setRetryLimit(n)
    \/ Setup /\ onError
    \/ \E m \in AckFrames : rx.n < MaxAcks /\ Receive(m)
    \/ \E T \in AppTypes : SendBegin(T, 1, 2, Payload(T.size, 0))
    \/ SendFrame
    \/ SendFrameFail
    \/ WaitAckPoll
    \/ WaitAckReset
    \/ WaitAckTimeout
    \/ \E d \in SendTickSteps : Tick(d)

SpecSend == Init /\ [][NextSend]_vars

(***************************************************************************)
(* SpecRT: a round trip.  One endpoint sends one message; the frames of    *)
(* its first transmission attempt reach the handleReceive of a second      *)
(* endpoint in the order sent.  snd, sent,                                 *)
(* errs, retryLimit_, errorCb_ and pendingAck_ are the sending endpoint's; *)
(* fragMap_, handlers_ and rx are the receiving endpoint's.                *)
(***************************************************************************)
\* the payload lengths of the round trip, declared with type-ids 0..6
RTLens == <<1, 7, 8, 9, 16, 20, 61>>
RTTypes == {MsgType(i - 1, RTLens[i]) : i \in 1..Len(RTLens)}
RTSeeds == {0, 200}
RTAddr == 4
RTPrio == 2
RTNode == 1

InitRT == InitEndpoint /\ wire = [NoWire EXCEPT !.node = RTNode]

\* the one send call of a round trip
RTSend(T, addr, seed) ==
    /\ nSends = 0
    /\ SendBegin(T, RTPrio, addr, Payload(T.size, seed))

\* the receiving endpoint's handleReceive gets frame m, the next of `sent`
Arrive(m, changed) ==
    /\ wire.n < Len(sent)
    /\ HandleReceive(m)
    /\ wire' = [wire EXCEPT
                  !.n = @ + 1,
                  !.calls = @ \o rx'.calls,
                  !.acks = @ \o rx'.acks,
                  !.t0 = IF IdSeq(m.identifier) = START THEN now ELSE @,
                  !.late = @ \/ (/\ IdSeq(m.identifier) \in {MIDDLE, END}
                                 /\ now - wire.t0 > REASSEMBLY_TIMEOUT),
                  !.hit = @ \/ changed]
    /\ UNCHANGED <<now, retryLimit_, errorCb_, handlers_, snd, sent, errs, nSends,
                   ackSeen>>

Deliver == wire.n < Len(sent) /\ Arrive(sent[wire.n + 1], FALSE)

NextRT ==
    \/ \E T \in RTTypes : Setup /\ onReceive(T)
    \/ \E T \in RTTypes, seed \in RTSeeds : RTSend(T, RTAddr, seed)
    \/ SendFrame
    \/ WaitAckPoll
    \/ WaitAckReset
    \/ Deliver
    \/ \E d \in TickSteps : Tick(d)

SpecRT == InitRT /\ [][NextRT]_vars

(***************************************************************************)
(* SpecCorrupt: the round trip with one byte of one frame changed on the   *)
(* way.  The handler of the message's own type is registered; the frames   *)
(* are fed once the send call has returned.                                *)
(***************************************************************************)
ByteValues == 0..255

\* frame m with data byte j changed to v
Changed(m, j, v) == [m EXCEPT !.data[j] = v]

\* the next frame arrives with one of its bytes changed to another value
DeliverChanged ==
    /\ wire.n < Len(sent)
    /\ ~wire.hit
    /\ \E j \in 1..Len(sent[wire.n + 1].data) :
          \E v \in ByteValues \ {sent[wire.n + 1].data[j]} :
              Arrive(Changed(sent[wire.n + 1], j, v), TRUE)

NextCorrupt ==
    \/ \E T \in RTTypes : Setup /\ handlers_ = EmptyMap /\ onReceive(T)
    \/ \E T \in RTTypes :
          /\ MsgTraitsTypeID(T) \in DOMAIN handlers_
          /\ handlers_[MsgTraitsTypeID(T)] = T
          /\ RTSend(T, RTAddr, 0)
    \/ SendFrame
    \/ WaitAckPoll
    \/ WaitAckReset
    \/ Returned /\ Deliver
    \/ Returned /\ DeliverChanged

SpecCorrupt == InitRT /\ [][NextCorrupt]_vars

(***************************************************************************)
(* SpecFrag: the first pass of send's outer loop, for messages of 1 to 24  *)
(* and of 61 bytes.                                                        *)
(***************************************************************************)
FragLens == (1..24) \cup {61}
\* priority and address of the send call
FragDests == {<<RTPrio, RTAddr>>, <<3, 15>>}

NextFrag ==
    \/ \E n \in RetryLimits : Setup /\ setRetryLimit(n)
    \/ \E L \in FragLens, seed \in RTSeeds, d \in FragDests :
          /\ nSends = 0
          /\ SendBegin(MsgType(L % 7, L), d[1], d[2], Payload(L, seed))
    \/ SendFrame
    \/ WaitAckPoll
    \/ WaitAckReset

SpecFrag == Init /\ [][NextFrag]_vars

(***************************************************************************)
(* SpecRetry: one multi-frame send to whose waits no acknowledgment comes. *)
(* Before the send the endpoint may have received an acknowledgment frame  *)
(* for type-id 1, so that pendingAck_ differs from the message's type.     *)
(* Time passes while waitAck polls without a match.                        *)
(***************************************************************************)
WideRetryLimits == {0, 1, 2, 127, 254, 255}

\* waitAck's loop runs for ACK_WAIT_MS, no poll finding its type
WaitAckElapse ==
    /\ snd.pc = "waitAck"
    /\ WaitAckOpen(snd)
    /\ ~AckMatches(snd)
    /\ TickUpTo(ACK_WAIT_MS, MaxWaitClock)

NextRetry ==
    \/ \E n \in WideRetryLimits : Setup /\ setRetryLimit(n)
    \/ Setup /\ onError
    \/ Setup /\ Receive(AckFrame(<<1>>))
    \/ nSends = 0 /\ SendBegin(BigMsg, 1, 2, Payload(BigMsg.size, 0))
    \/ SendFrame
    \/ WaitAckPoll
    \/ WaitAckReset
    \/ WaitAckElapse
    \/ WaitAckTimeout

SpecRetry == Init /\ [][NextRetry]_vars

(***************************************************************************)
(* SpecId: the identifier codec.  handleReceive gets one frame whose       *)
(* identifier buildId made of a priority, an address, a sequence tag and a *)
(* type-id, and whose four data bytes are those arguments.                 *)
(***************************************************************************)
Prios == 0..3
Addrs == 0..15
Seqs == {START, MIDDLE, END, SINGLE}
TypeIds == 0..7

IdFrame(prio, addr, seq, type) ==
    Frame(buildId(prio, addr, seq, type), <<prio, addr, seq, type>>)

NextId ==
    \E prio \in Prios, addr \in Addrs, seq \in Seqs, type \in TypeIds :
        rx.n = 0 /\ Receive(IdFrame(prio, addr, seq, type))

SpecId == Init /\ [][NextId]_vars

(***************************************************************************)
(* Properties of the receive path                                          *)
(***************************************************************************)
\* a step that is a handleReceive call; rx' describes it
RxStep == rx'.n = rx.n + 1
RxKey(r) == BaseId(r.frame.identifier)
RxSeq(r) == IdSeq(r.frame.identifier)
RxIsData(r) == IdType(r.frame.identifier) # ACK_TYPE_ID
\* the last byte is the checksum of the bytes before it
Validated(data) ==
    /\ Len(data) >= 1
    /\ data[Len(data)] = crc8(SubSeq(data, 1, Len(data) - 1))

\* C5: a Middle or End frame that arrives more than 500 ms after the Start
\* that made the entry of its routing key is not appended and causes no
\* dispatch and no acknowledgment: the entry is removed.  One that arrives
\* at most 500 ms after that Start (500 included) is appended: a Middle
\* leaves the old bytes followed by its own, an End is validated over them.
\* The window runs from the Start: the entry's timestamp stays the Start's.
C5_Step ==
    LET k == RxKey(rx')
        m == rx'.frame
    IN (RxStep /\ RxIsData(rx') /\ RxSeq(rx') \in {MIDDLE, END} /\ k \in DOMAIN startAt)
       => /\ k \in DOMAIN fragMap_
          /\ fragMap_[k].timestamp = startAt[k]
          /\ IF now - startAt[k] > 500
             THEN /\ k \notin DOMAIN fragMap_'
                  /\ rx'.acks = <<>>
                  /\ rx'.calls = <<>>
             ELSE IF RxSeq(rx') = MIDDLE
             THEN /\ k \in DOMAIN fragMap_'
                  /\ fragMap_'[k].data = fragMap_[k].data \o m.data
                  /\ fragMap_'[k].timestamp = startAt[k]
             ELSE (rx'.acks # <<>>) <=> Validated(fragMap_[k].data \o m.data)
C5_TimeoutEviction == [][C5_Step]_vars

\* C5 witness: a Middle frame came 501 ms or more after the Start of its key,
\* and the entry is gone
C5_Witness ==
    /\ rx.n > 0 /\ RxIsData(rx) /\ RxSeq(rx) = MIDDLE
    /\ rx.started
    /\ now - rx.old.timestamp > 500
    /\ RxKey(rx) \notin DOMAIN fragMap_

\* C6: a Middle or End frame whose routing key has no entry is discarded:
\* afterwards the table has no entry for the key, and nothing was dispatched
\* or acknowledged, at any clock value.
C6_Step ==
    (RxStep /\ RxIsData(rx') /\ RxSeq(rx') \in {MIDDLE, END}
            /\ RxKey(rx') \notin DOMAIN fragMap_)
    => /\ RxKey(rx') \notin DOMAIN fragMap_'
       /\ rx'.acks = <<>>
       /\ rx'.calls = <<>>
C6_NoStartDiscarded == [][C6_Step]_vars

\* C7: a Single frame leaves the reassembly table as it was, is dispatched
\* with its payload bytes as they are, and is not acknowledged.
C7_Step ==
    (RxStep /\ RxIsData(rx') /\ RxSeq(rx') = SINGLE)
    => /\ fragMap_' = fragMap_
       /\ rx'.acks = <<>>
       /\ rx'.calls = dispatch(IdType(rx'.frame.identifier), rx'.frame.data)
C7_SingleBypassesTable == [][C7_Step]_vars

\* C8: a handleReceive call transmits an acknowledgment exactly when it
\* processed an End frame for an existing entry that is not expired and whose
\* bytes, the frame's included, end in the checksum of the bytes before; it
\* transmits one.  An End frame that fails the comparison runs no handler.
C8_Step ==
    LET k == RxKey(rx')
        good == /\ RxIsData(rx') /\ RxSeq(rx') = END
                /\ k \in DOMAIN fragMap_
                /\ now - fragMap_[k].timestamp <= 500
                /\ Validated(fragMap_[k].data \o rx'.frame.data)
    IN RxStep => /\ (rx'.acks # <<>>) <=> good
                 /\ Len(rx'.acks) <= 1
                 /\ ~good => rx'.calls = <<>> \/ RxSeq(rx') = SINGLE
C8_AckOnValidatedEnd == [][C8_Step]_vars

\* C10: after an End frame the table has no entry for the frame's routing
\* key, whatever the outcome; the entries of the other keys are as before.
C10_Step ==
    LET k == RxKey(rx')
    IN (RxStep /\ RxIsData(rx') /\ RxSeq(rx') = END)
       => /\ k \notin DOMAIN fragMap_'
          /\ DOMAIN fragMap_' = DOMAIN fragMap_ \ {k}
          /\ \A j \in DOMAIN fragMap_' : fragMap_'[j] = fragMap_[j]
C10_EndClearsEntry == [][C10_Step]_vars

\* C10 witness: an End frame failed the checksum comparison on an entry that
\* a Start had made, while another key holds an entry
C10_Witness ==
    /\ rx.n > 0 /\ RxIsData(rx) /\ RxSeq(rx) = END
    /\ rx.started
    /\ now - rx.old.timestamp <= 500
    /\ ~Validated(rx.old.data \o rx.frame.data)
    /\ RxKey(rx) \notin DOMAIN fragMap_
    /\ DOMAIN fragMap_ # {}

\* C13: a validated message (a Single frame's bytes, or the bytes before the
\* checksum of an End frame whose comparison succeeds) whose type-id has no
\* handler, or which is shorter than the handler's message size, runs no
\* handler; otherwise the handler of its type-id runs once with the first
\* size-many bytes.
C13_Step ==
    LET m == rx'.frame
        type == IdType(m.identifier)
        all == rx'.old.data \o m.data
        isMsg == \/ RxSeq(rx') = SINGLE
                 \/ /\ RxSeq(rx') = END
                    /\ now - rx'.old.timestamp <= 500
                    /\ Validated(all)
        bytes == IF RxSeq(rx') = SINGLE THEN m.data ELSE SubSeq(all, 1, Len(all) - 1)
    IN (RxStep /\ RxIsData(rx') /\ isMsg)
       => IF type \notin DOMAIN handlers_
          THEN rx'.calls = <<>>
          ELSE IF Len(bytes) < handlers_[type].size
          THEN rx'.calls = <<>>
          ELSE rx'.calls = << [T |-> handlers_[type],
                               msg |-> SubSeq(bytes, 1, handlers_[type].size)] >>
C13_UnknownShortSafe == [][C13_Step]_vars

\* C13 witness: a reassembled message with a right checksum and no bytes before
\* it was acknowledged, and the registered handler, whose message size is 1,
\* did not run
C13_Witness ==
    /\ rx.n > 0 /\ RxIsData(rx) /\ RxSeq(rx) = END
    /\ rx.started
    /\ rx.acks # <<>>
    /\ IdType(rx.frame.identifier) \in DOMAIN handlers_
    /\ rx.calls = <<>>

\* C14: the identifier buildId makes of a priority 0..3, an address 0..15, a
\* sequence tag 0..3 and a type-id 0..7 is below 2^11 and decodes, with the
\* shifts and masks of handleReceive, to the same four values.
C14_IdRoundTrip ==
    rx.n > 0
    => /\ rx.frame.identifier < 2048
       /\ << IdPrio(rx.frame.identifier), IdFrom(rx.frame.identifier),
             IdSeq(rx.frame.identifier), IdType(rx.frame.identifier) >> = rx.frame.data

\* C14 witness: the identifier of priority 3, address 15, End, type-id 7 was
\* received, all eleven bits but one set
C14_Witness ==
    /\ rx.n > 0
    /\ rx.frame.data = <<3, 15, END, 7>>
    /\ rx.frame.identifier = 2039
    /\ pendingAck_ = 3

(***************************************************************************)
(* Properties of the send path                                             *)
(***************************************************************************)
\* frames of one transmission attempt
AttemptFrames(s) == (Len(s.buf) + MAX_FRAME_DATA - 1) \div MAX_FRAME_DATA

\* C2: a multi-frame send with retry limit 2, during which the endpoint
\* receives no acknowledgment frame and the transport takes every frame,
\* transmits the fragment sequence three times, calls the error callback once
\* with the message's type-id and the destination address, and returns
\* ESP_FAIL.
C2_RetryExhaustion ==
    (/\ Returned /\ snd.fragmented /\ snd.ret # "ESP_ERR"
     /\ retryLimit_ = 2 /\ errorCb_
     /\ rx.n = 0)
    => /\ Len(sent) = 3 * AttemptFrames(snd)
       /\ errs = << <<snd.T.ID, snd.addr>> >>
       /\ snd.ret = "ESP_FAIL"

\* C3: a multi-frame send with a retry limit above 0 returns ESP_OK only if,
\* after it transmitted its first fragment and before it returned,
\* handleReceive processed an acknowledgment frame whose payload byte is the
\* message's type-id.
C3_SuccessNeedsAck ==
    (Returned /\ snd.ret = "ESP_OK" /\ snd.fragmented /\ retryLimit_ > 0) => ackSeen

\* the frames of one pass of send's outer loop, in order
Attempt(s) == [i \in 1..AttemptFrames(s) |-> Fragment(s, (i - 1) * MAX_FRAME_DATA)]

\* C11: a send with retry limit 0, or of a message of at most 8 bytes, whose
\* transmissions all succeed, transmits each of its frames once and returns
\* ESP_OK without entering waitAck: no step of it reads or changes
\* pendingAck_, and the error callback is not called.
C11_Step ==
    (snd' # snd /\ (retryLimit_ = 0 \/ ~snd'.fragmented))
    => /\ pendingAck_' = pendingAck_
       /\ snd'.pc \in {"frames", "idle"}
       /\ snd'.waits = 0
       /\ errs' = <<>>
       /\ (snd'.pc = "idle" /\ snd'.ret # "ESP_ERR")
             => /\ snd'.ret = "ESP_OK"
                /\ sent' = Attempt(snd')
C11_NoAckWait == [][C11_Step]_vars

\* C11 witness: a two-frame message was sent with retry limit 0 while the
\* slot held 1, and the slot still holds it
C11_Witness ==
    /\ Returned /\ snd.ret = "ESP_OK"
    /\ retryLimit_ = 0 /\ snd.fragmented
    /\ Len(sent) = 2
    /\ pendingAck_ = 1

\* C12: when twai_transmit rejects a fragment, in the first pass or in a
\* retry, send returns the error in that step: the frame is not transmitted,
\* the error callback is not called, pendingAck_ and fragMap_ are as before;
\* and the call, having returned, transmits nothing more.
C12_Step ==
    /\ (snd.pc = "frames" /\ snd'.ret = "ESP_ERR")
          => /\ snd'.pc = "idle"
             /\ sent' = sent
             /\ errs' = <<>>
             /\ pendingAck_' = pendingAck_
             /\ fragMap_' = fragMap_
    /\ (snd.pc = "idle" /\ snd.ret = "ESP_ERR")
          => \/ sent' = sent /\ errs' = errs /\ snd' = snd
             \/ nSends' = nSends + 1
C12_TransportFailure == [][C12_Step]_vars

\* C12 witness: the second fragment of the first retry was rejected, with an
\* error callback registered
C12_Witness ==
    /\ Returned /\ snd.ret = "ESP_ERR"
    /\ snd.attempts = 1
    /\ Len(sent) = AttemptFrames(snd) + 1
    /\ errorCb_
    /\ errs = <<>>

(***************************************************************************)
(* SpecMix: two multi-frame messages in flight.  The frames of one pass of *)
(* two send calls reach one endpoint's handleReceive interleaved, each     *)
(* message's frames in their order.  wire.msgs are the two send calls,     *)
(* wire.n how many frames of each have arrived; calls, acks, t0 and late   *)
(* are kept per message; mixed is whether a frame arrived while the other  *)
(* message was partly delivered.                                           *)
(***************************************************************************)
\* the locals of send<T>(prio, addr, msg) when its loop starts
SendCall(T, prio, addr, payload) ==
    [IdleSend EXCEPT !.pc = "frames", !.T = T, !.prio = prio, !.addr = addr,
                     !.type = MsgTraitsTypeID(T), !.payload = payload,
                     !.buf = SendBuf(payload),
                     !.fragmented = (Len(payload) > MAX_FRAME_DATA)]

WideMsg == MsgType(3, 16)
MixFirst == SendCall(BigMsg, 1, 4, Payload(BigMsg.size, 0))
\* the second message: another address, another priority, another type
MixSecond ==
    {SendCall(BigMsg, 1, 5, Payload(BigMsg.size, 100)),
     SendCall(BigMsg, 2, 4, Payload(BigMsg.size, 100)),
     SendCall(WideMsg, 1, 5, Payload(WideMsg.size, 100))}

MixWire(a, b) ==
    [msgs |-> <<a, b>>, n |-> <<0, 0>>, calls |-> << <<>>, <<>> >>,
     acks |-> << <<>>, <<>> >>, t0 |-> <<0, 0>>, late |-> <<FALSE, FALSE>>,
     mixed |-> FALSE]

InitMix == InitEndpoint /\ wire \in {MixWire(MixFirst, b) : b \in MixSecond}

\* the next frame of message i arrives
MixDeliver(i) ==
    LET s == wire.msgs[i]
        m == Attempt(s)[wire.n[i] + 1]
        other == wire.n[3 - i]
    IN /\ wire.n[i] < AttemptFrames(s)
       /\ HandleReceive(m)
       /\ wire' = [wire EXCEPT
                     !.n[i] = @ + 1,
                     !.calls[i] = @ \o rx'.calls,
                     !.acks[i] = @ \o rx'.acks,
                     !.t0[i] = IF IdSeq(m.identifier) = START THEN now ELSE @,
                     !.late[i] = @ \/ (/\ IdSeq(m.identifier) \in {MIDDLE, END}
                                       /\ now - wire.t0[i] > REASSEMBLY_TIMEOUT),
                     !.mixed = @ \/ (0 < other /\ other < AttemptFrames(wire.msgs[3 - i]))]
       /\ UNCHANGED <<now, retryLimit_, errorCb_, handlers_, snd, sent, errs, nSends,
                      ackSeen>>

NextMix ==
    \/ \E T \in {BigMsg, WideMsg} : Setup /\ onReceive(T)
    \/ \E i \in {1, 2} : MixDeliver(i)
    \/ \E d \in TickSteps : Tick(d)

SpecMix == InitMix /\ [][NextMix]_vars

(***************************************************************************)
(* Properties of the round trip                                            *)
(***************************************************************************)
\* the receiving endpoint registered the handler of the message's own type
OwnHandler ==
    /\ nSends = 1
    /\ snd.type \in DOMAIN handlers_
    /\ handlers_[snd.type] = snd.T

\* C1: when the frames of one transmission attempt of a message of 1, 7, 8,
\* 9, 16, 20 or 61 bytes have been fed in order, each fragment at most the
\* reassembly timeout after the Start, to an endpoint that registered the
\* handler of that message type, the handler has run once, with the bytes
\* sent; before the last frame it has not run.
C1_RoundTrip ==
    (OwnHandler /\ ~wire.late)
    => /\ wire.n < AttemptFrames(snd) => wire.calls = <<>>
       /\ wire.n = AttemptFrames(snd)
             => wire.calls = << [T |-> snd.T, msg |-> snd.payload] >>

\* C1 witness: the 61 bytes of a message arrived in eight frames
C1_Witness ==
    /\ OwnHandler /\ ~wire.late
    /\ snd.T.size = 61
    /\ wire.n = 8
    /\ Len(wire.calls) = 1
    /\ wire.calls[1].msg = Payload(61, 200)

\* C4: with one byte of the fragment stream of a multi-frame message changed
\* to another value, no handler runs and no acknowledgment is transmitted;
\* the End frame's checksum comparison fails.
C4_CorruptionRejected ==
    (wire.hit /\ snd.fragmented)
    => /\ wire.calls = <<>>
       /\ wire.acks = <<>>
       /\ wire.n = AttemptFrames(snd)
             => /\ IdSeq(rx.frame.identifier) = END
                /\ rx.started
                /\ ~Validated(rx.old.data \o rx.frame.data)

\* C4 witness: all eight frames of a 61-byte message were fed, one byte changed
C4_Witness ==
    /\ wire.hit /\ OwnHandler
    /\ snd.T.size = 61
    /\ wire.n = 8
    /\ wire.calls = <<>>

\* C9: the acknowledgment frame is addressed to the node that sent the
\* message, is a Single frame of type-id 7 and carries one byte, the type-id
\* of the message's frames.
C9_AckContent ==
    \A i \in 1..Len(wire.acks) :
        /\ IdFrom(wire.acks[i].identifier) = wire.node
        /\ IdSeq(wire.acks[i].identifier) = SINGLE
        /\ IdType(wire.acks[i].identifier) = ACK_TYPE_ID
        /\ wire.acks[i].data = <<snd.type>>

\* C15: every frame send emits for a message type declared with type-id t
\* carries t in its type field, and onReceive stores the type's handler under
\* t, so that handlers of types with different type-ids are both kept.
C15_TypeBinding ==
    /\ \A i \in 1..Len(sent) : IdType(sent[i].identifier) = snd.T.ID
    /\ \A k \in DOMAIN handlers_ : handlers_[k].ID = k

\* the data bytes of a sequence of frames, in order
RECURSIVE Concat(_)
Concat(frames) ==
    IF frames = <<>> THEN <<>> ELSE Head(frames).data \o Concat(Tail(frames))

\* C16: one pass of send for a payload of L > 8 bytes emits ceil((L+1)/8)
\* frames, at least 2: the first Start, the last End, the others Middle; all
\* but the last carry 8 bytes, the last 1..8; their data in order is the
\* payload followed by its checksum; priority, address and type are the same
\* in all.  For L <= 8 it emits one Single frame with the payload.
C16_FragmentLayout ==
    LET L == Len(snd.payload)
        n == Len(sent)
    IN (nSends = 1 /\ snd.pc # "frames")
       => /\ \A i \in 1..n :
                /\ IdPrio(sent[i].identifier) = snd.prio
                /\ IdFrom(sent[i].identifier) = snd.addr
                /\ IdType(sent[i].identifier) = IdType(sent[1].identifier)
          /\ IF L > 8
             THEN /\ n = (L + 1 + 7) \div 8
                  /\ n >= 2
                  /\ IdSeq(sent[1].identifier) = START
                  /\ IdSeq(sent[n].identifier) = END
                  /\ \A i \in 2..(n - 1) : IdSeq(sent[i].identifier) = MIDDLE
                  /\ \A i \in 1..(n - 1) : Len(sent[i].data) = 8
                  /\ Len(sent[n].data) \in 1..8
                  /\ Concat(sent) = snd.payload \o <<crc8(snd.payload)>>
             ELSE /\ n = 1
                  /\ IdSeq(sent[1].identifier) = SINGLE
                  /\ sent[1].data = snd.payload

\* C16 witness: 16 bytes went out in three frames, the End frame carrying the
\* checksum alone
C16_Witness ==
    /\ nSends = 1 /\ snd.pc # "frames"
    /\ Len(snd.payload) = 16
    /\ Len(sent) = 3
    /\ IdSeq(sent[2].identifier) = MIDDLE
    /\ sent[3].data = <<crc8(snd.payload)>>

\* C17: with any retry limit n in 0..255, a multi-frame send to whose waits
\* no acknowledgment comes makes at most n+1 passes and at most n+1
\* acknowledgment waits (and then returns).
C17_BoundedBlocking ==
    (nSends = 1 /\ snd.fragmented)
    => /\ snd.waits <= retryLimit_ + 1
       /\ Len(sent) <= (retryLimit_ + 1) * AttemptFrames(snd)

\* message i of SpecMix: its handler is the one stored for its frames'
\* type-id, and none of its fragments came late
MixInTime(i) ==
    /\ wire.msgs[i].type \in DOMAIN handlers_
    /\ handlers_[wire.msgs[i].type] = wire.msgs[i].T
    /\ ~wire.late[i]

\* until its last frame message i ran no handler and got no acknowledgment;
\* with its last frame it ran its handler once, with its own bytes, and was
\* acknowledged once
MixDelivered(i) ==
    IF wire.n[i] < AttemptFrames(wire.msgs[i])
    THEN wire.calls[i] = <<>> /\ wire.acks[i] = <<>>
    ELSE /\ wire.calls[i] = << [T |-> wire.msgs[i].T, msg |-> wire.msgs[i].payload] >>
         /\ Len(wire.acks[i]) = 1

\* C18: of two multi-frame messages with different routing keys, whose
\* fragments arrive interleaved in any way, each in its own order and within
\* the reassembly timeout, each is dispatched once with its own bytes and
\* acknowledged once; a frame of one key leaves the entries of the other keys
\* as they were.
C18_Step ==
    /\ RxStep => \A k \in DOMAIN fragMap_ \ {RxKey(rx')} :
                     k \in DOMAIN fragMap_' /\ fragMap_'[k] = fragMap_[k]
    /\ \A i \in {1, 2} : MixInTime(i)' => MixDelivered(i)'
C18_MixedInFlight == [][C18_Step]_vars

\* C18 witness: both messages are complete, their fragments having been
\* interleaved, and time has passed between them
C18_Witness ==
    /\ wire.mixed
    /\ \A i \in {1, 2} : /\ MixInTime(i)
                         /\ wire.n[i] = AttemptFrames(wire.msgs[i])
                         /\ Len(wire.calls[i]) = 1
    /\ now = REASSEMBLY_TIMEOUT

\* C19: after a Start frame the entry of its routing key exists, holds
\* exactly the frame's bytes and has the current time as its timestamp,
\* whether or not an entry existed or was expired; that call runs no handler
\* and transmits no acknowledgment.
C19_Step ==
    LET k == RxKey(rx')
    IN (RxStep /\ RxIsData(rx') /\ RxSeq(rx') = START)
       => /\ k \in DOMAIN fragMap_'
          /\ fragMap_'[k].data = rx'.frame.data
          /\ fragMap_'[k].timestamp = now
          /\ rx'.calls = <<>>
          /\ rx'.acks = <<>>
C19_StartSupersedes == [][C19_Step]_vars

\* C19 witness: a Start frame came for a key whose entry held bytes and was
\* expired, and the entry now holds the frame's bytes alone
C19_Witness ==
    /\ rx.n > 0 /\ RxIsData(rx) /\ RxSeq(rx) = START
    /\ rx.had
    /\ rx.old.data # <<>>
    /\ now - rx.old.timestamp > 500
    /\ RxKey(rx) \in DOMAIN fragMap_
    /\ fragMap_[RxKey(rx)] = [data |-> rx.frame.data, timestamp |-> now]

\* C20: waitAck matches on the type-id alone, so sends that overlap can take
\* each other's acknowledgment; but a multi-frame send that is the only one
\* outstanding and found the slot empty (0) when it started returns ESP_OK
\* only if an acknowledgment for its type-id was processed while it ran.
C20_NoSpuriousSuccess ==
    (/\ Returned /\ snd.ret = "ESP_OK"
     /\ snd.fragmented /\ retryLimit_ > 0
     /\ nSends = 1
     /\ snd.slot0 = 0)
    => ackSeen

\* C21: an acknowledgment is consumed once.  For each type-id t of 1..6 the
\* send calls for messages declared with type-id t that returned ESP_OK from
\* an acknowledgment wait are never more than the acknowledgment frames with
\* payload byte t that handleReceive has processed.
C21_AckConsumedOnce ==
    \A t \in 1..(ACK_TYPE_ID - 1) : tally.ok[t] <= tally.acks[t]

(***************************************************************************)
(* SpecRedo: one multi-frame send whose acknowledgments never reach the    *)
(* sender, and the endpoint its frames go to.  Each frame that left the    *)
(* sender reaches the receiving endpoint's handleReceive or is lost, in    *)
(* the order sent; it may wait on the way.  Before the send the sender may *)
(* have received an acknowledgment frame for type-id 1, so that its        *)
(* pendingAck_ differs from the message's type field and its waits run     *)
(* out.  The application has set the retry limit.  pendingAck_, snd and    *)
(* sent are the sending endpoint's; fragMap_ and handlers_ are the         *)
(* receiving endpoint's.                                                   *)
(***************************************************************************)
RedoLimits == {0, 1, 2}
Lost == -1
\* how long a frame may wait on the way
RedoDelays == {REASSEMBLY_TIMEOUT + 1}

\* wire.at: for each frame that left the bus, when it reached handleReceive,
\* or Lost
InitRedo ==
    /\ InitEndpoint
    /\ wire = [n |-> 0, calls |-> <<>>, acks |-> <<>>, t0 |-> 0, late |-> FALSE,
               hit |-> FALSE, node |-> RTNode, at |-> <<>>]

\* the receiving endpoint's handleReceive gets the next frame of `sent`
ArriveNext ==
    /\ wire.n < Len(sent)
    /\ HandleReceive(sent[wire.n + 1])
    /\ wire' = [wire EXCEPT
                  !.n = @ + 1,
                  !.calls = @ \o rx'.calls,
                  !.acks = @ \o rx'.acks,
                  !.at = Append(@, now)]
    /\ UNCHANGED <<now, retryLimit_, errorCb_, handlers_, snd, sent, errs, nSends,
                   ackSeen>>

\* the next frame of `sent` never reaches the receiving endpoint
LoseNext ==
    /\ wire.n < Len(sent)
    /\ wire' = [wire EXCEPT !.n = @ + 1, !.at = Append(@, Lost)]
    /\ UNCHANGED <<now, retryLimit_, errorCb_, pendingAck_, fragMap_, handlers_,
                   snd, sent, errs, nSends, rx, startAt, ackSeen, tally>>

\* the next frame of `sent`, a fragment whose predecessor arrived, waits on
\* the way
DelayNext(d) ==
    /\ wire.n < Len(sent)
    /\ wire.n >= 1
    /\ IdSeq(sent[wire.n + 1].identifier) # START
    /\ wire.at[wire.n] # Lost
    /\ TickUpTo(d, MaxClock)

NextRedo ==
    \/ \E n \in RedoLimits : Setup /\ setRetryLimit(n)
    \/ Setup /\ handlers_ = EmptyMap /\ onReceive(BigMsg)
    \/ Setup /\ Receive(AckFrame(<<1>>))
    \/ /\ nSends = 0
       /\ retryLimit_ \in RedoLimits
       /\ SendBegin(BigMsg, RTPrio, RTAddr, Payload(BigMsg.size, 0))
    \/ SendFrame
    \/ WaitAckPoll
    \/ WaitAckReset
    \/ WaitAckElapse
    \/ WaitAckTimeout
    \/ ArriveNext
    \/ LoseNext
    \/ \E d \in RedoDelays : DelayNext(d)

SpecRedo == InitRedo /\ [][NextRedo]_vars

\* transmission attempt k of the send call: frames (k-1)*F+1 .. k*F of `sent`
AttemptBase(k) == (k - 1) * AttemptFrames(snd)
\* attempts all of whose frames left the sender
AttemptsMade == IF nSends = 0 THEN 0 ELSE Len(sent) \div AttemptFrames(snd)
\* attempt k arrived intact: every frame reached handleReceive, each fragment
\* at most the reassembly timeout after the attempt's Start
AttemptIntact(k) ==
    /\ AttemptBase(k) + AttemptFrames(snd) <= Len(wire.at)
    /\ \A i \in 1..AttemptFrames(snd) :
          /\ wire.at[AttemptBase(k) + i] # Lost
          /\ wire.at[AttemptBase(k) + i] - wire.at[AttemptBase(k) + 1]
                <= REASSEMBLY_TIMEOUT
IntactAttempts == Cardinality({k \in 1..AttemptsMade : AttemptIntact(k)})
\* End frames that reached handleReceive
EndsArrived ==
    Cardinality({i \in 1..Len(wire.at) :
                    wire.at[i] # Lost /\ IdSeq(sent[i].identifier) = END})
\* no attempt arrived in part: each is intact or lost whole
WholeOrLost ==
    \A k \in 1..AttemptsMade :
        \/ AttemptIntact(k)
        \/ \A i \in 1..AttemptFrames(snd) :
              AttemptBase(k) + i <= Len(wire.at) => wire.at[AttemptBase(k) + i] = Lost

\* every handler invocation at the receiving endpoint got the message sent
CallsAreCopies ==
    \A i \in 1..Len(wire.calls) : wire.calls[i] = [T |-> snd.T, msg |-> snd.payload]

\* C22 as stated: for one send call whose acknowledgments are lost, the
\* handler invocations at a receiver that registered the message's handler
\* are as many as the transmission attempts that arrived intact.
C22_CallsEqualIntact ==
    OwnHandler => Len(wire.calls) = IntactAttempts

\* C22, amended: the receiver keeps no record of delivered messages.  For one
\* send call whose acknowledgments are lost, every attempt that arrived
\* intact invoked the handler, so the invocations are at least the intact
\* attempts; each invocation got the message sent and came with one
\* acknowledgment; the invocations are at most the End frames that arrived,
\* since fragments of different attempts are assembled like those of one; and
\* they equal the intact attempts when every attempt arrived intact or not
\* at all.
C22_AtLeastOnce ==
    OwnHandler
    => /\ IntactAttempts <= Len(wire.calls)
       /\ Len(wire.calls) <= EndsArrived
       /\ Len(wire.acks) = Len(wire.calls)
       /\ CallsAreCopies
       /\ WholeOrLost => Len(wire.calls) = IntactAttempts

\* C22 witness: with retry limit 2 all three attempts arrived intact, the
\* handler ran three times, and the send call returned ESP_FAIL
C22_Witness ==
    /\ OwnHandler
    /\ retryLimit_ = 2
    /\ Returned /\ snd.ret = "ESP_FAIL"
    /\ AttemptsMade = 3
    /\ IntactAttempts = 3
    /\ Len(wire.calls) = 3
    /\ Len(wire.acks) = 3

====
